---- MODULE Spec2Model ----
(***************************************************************************)
(* A_Maze_ing: the maze generator of src/mazegen/generator.py and the      *)
(* application that drives it, src/visuals/tui.py.                         *)
(*                                                                         *)
(* A MazeGenerator owns a width x height grid of 4-bit wall masks, the     *)
(* history log of wall removals, the coordinates of the embedded "42"      *)
(* glyph and a seeded random source.  generate() is modelled at the        *)
(* granularity of its loops: one action for the reset and the glyph        *)
(* embedding, one per iteration of the carving loop, one per iteration of  *)
(* the imperfection loop, and one for each loop exit.                      *)
(*                                                                         *)
(* A MazeApp owns one generator, the grid it displays and the timer that   *)
(* replays the history onto it.  Each of its handlers is one action, or,   *)
(* when it calls generate(), a start action, the actions of generate() and *)
(* an end action, with no other handler in between.                        *)
(***************************************************************************)
EXTENDS Integers, Sequences, FiniteSets, TLC

\* ---------------------------------------------------------------- bounds
\* Largest grid explored: the glyph needs 9 x 7, and 10 x 7 is the first
\* grid whose imperfection target is 2.
MaxW == 10
MaxH == 7
\* Seeds given to the constructor are 0..MaxSeed.
MaxSeed == 1
\* generate() is called at most MaxRuns times on one generator.
MaxRuns == 2
\* Every order of the random choices is explored on the grids of at most
\* MaxFree x MaxFree cells.
MaxFree == 3
\* The application handles the keys r and a at most MaxKeys times.
MaxKeys == 2
\* The application is explored on the grids of at most MaxApp x MaxApp cells.
MaxApp == 4

\* ------------------------------------------------------ program constants
NORTH == 1
EAST == 2
SOUTH == 4
WEST == 8
ALL_WALLS == 15
\* __init__ rejects dimensions below 3 x 3.
MinDim == 3
\* _embed_42: bounding box of the glyph.
pat_width == 7
pat_height == 5
\* make_imperfect: attempt budget.
max_attempts == 500
\* MazeApp.COLORS has six entries.
NumColors == 6

VARIABLES
    width, height,          \* self.width, self.height
    seed,                   \* the seed the generator was constructed with
    rng,                    \* state of self._rng
    grid,                   \* self.grid: grid[y][x] in 0..15
    history,                \* self.history
    pattern_42_coords,      \* self.pattern_42_coords
    pattern_42_failed,      \* self.pattern_42_failed
    pc,                     \* where the generator is: idle, carve, imperfect, done
    perfect,                \* the flag of the latest generate call; before the
                            \* first one, the caller's is_perfect
    stack, visited,         \* locals of generate
    count, attempts,        \* locals of make_imperfect
    carved,                 \* length of the history when the carving loop ended
    calls,                  \* number of generate calls made on this generator
    runs,                   \* number of generate calls made in this behaviour
    args,                   \* entry and exit of the latest set_entry_exit call
    raised,                 \* outcome of the latest set_entry_exit call
    first,                  \* result of the first completed generate call
    steps,                  \* iterations of the carving loop made by this call
    pushed,                 \* the cells this call pushed onto the stack, in order
    handler,                \* the MazeApp handler that is inside its generate call
    timer,                  \* MazeApp.timer: none, running or stopped
    display_grid,           \* MazeApp.display_grid
    step_index,             \* MazeApp.step_index
    current_color_index,    \* MazeApp.current_color_index
    log                     \* the history as it was when the latest animation started

\* what is recorded about the carving loop of the latest generate call
loop == <<steps, pushed>>

vars == <<width, height, seed, rng, grid, history, pattern_42_coords,
          pattern_42_failed, pc, perfect, stack, visited, count, attempts,
          carved, calls, runs, args, raised, first, steps, pushed,
          handler, timer, display_grid, step_index, current_color_index, log>>

\* the state of the application, src/visuals/tui.py
tui == <<handler, timer, display_grid, step_index, current_color_index, log>>

\* ------------------------------------------------------------- the grid
AllWalls(w, h) == [y \in 0 .. h - 1 |-> [x \in 0 .. w - 1 |-> ALL_WALLS]]

\* g[y][x] for the cell c = <<x, y>>
At(g, c) == g[c[2]][c[1]]

\* v & d for a single-bit d
HasWall(v, d) == (v \div d) % 2 = 1

\* v &= ~d   (d is one bit, or 0)
ClearBit(v, d) == IF d # 0 /\ HasWall(v, d) THEN v - d ELSE v

\* an opposite that clears the same bit on the neighbour
OppositeSame(d) == d

\* _remove_wall, lines 117-125
Opposite(d) ==
    IF d = NORTH THEN SOUTH
    ELSE IF d = SOUTH THEN NORTH
    ELSE IF d = EAST THEN WEST
    ELSE IF d = WEST THEN EAST
    ELSE 0

\* _remove_wall, lines 115 and 127: the grid after the removal
RemoveWallGrid(g, c1, c2, d) ==
    LET g1 == [g EXCEPT ![c1[2]][c1[1]] = ClearBit(@, d)]
    IN  [g1 EXCEPT ![c2[2]][c2[1]] = ClearBit(@, Opposite(d))]

\* The history step both callers append: the two cells' values after removal.
HistoryStep(g, c1, c2) ==
    << <<c1[1], c1[2], At(g, c1)>>, <<c2[1], c2[2], At(g, c2)>> >>

\* _remove_wall with record_history=True
RemoveWall(g, hist, c1, c2, d) ==
    LET g2 == RemoveWallGrid(g, c1, c2, d)
    IN  [grid |-> g2, history |-> Append(hist, HistoryStep(g2, c1, c2))]

\* ----------------------------------------------------- the random source
\* random.Random(seed) is a deterministic generator: its state is a function
\* of the seed and of the number of draws.  It is modelled by a 16-bit linear
\* congruential generator whose upper byte is the output.
RngNext(s) == (s * 25173 + 13849) % 65536

\* the value of _randbelow(n) drawn in state s; the state becomes RngNext(s)
RandBelow(s, n) == (RngNext(s) \div 256) % n

\* ------------------------------------------------------------ the glyph
pat_4 == { <<0, 0>>, <<2, 0>>,
           <<0, 1>>, <<2, 1>>,
           <<0, 2>>, <<1, 2>>, <<2, 2>>,
           <<2, 3>>,
           <<2, 4>> }

pat_2 == { <<0, 0>>, <<1, 0>>, <<2, 0>>,
           <<2, 1>>,
           <<0, 2>>, <<1, 2>>, <<2, 2>>,
           <<0, 3>>,
           <<0, 4>>, <<1, 4>>, <<2, 4>> }

\* a fit test that forgets the margin around the glyph
PatternFailsNoMargin(w, h) == w < pat_width \/ h < pat_height

\* _embed_42, line 174
PatternFails(w, h) == w < pat_width + 2 \/ h < pat_height + 2

\* _embed_42, lines 180-193: the coordinates added to pattern_42_coords
PatternCoords(w, h) ==
    IF PatternFails(w, h) THEN {}
    ELSE LET offset_x == (w - pat_width) \div 2
             offset_y == (h - pat_height) \div 2
         IN  { <<offset_x + p[1], offset_y + p[2]>> : p \in pat_4 }
             \cup { <<offset_x + p[1] + 4, offset_y + p[2]>> : p \in pat_2 }

\* _embed_42, lines 186 and 192: the coordinates added to visited
PatternVisited(w, h) == PatternCoords(w, h)

\* ------------------------------------------------- the validation result
\* No set_entry_exit call has been made since the last generate.
NoCall == <<"", "none">>
NoArgs == << >>

\* --------------------------------------------------- the first run's result
Unset == [set |-> FALSE]

\* The result of the run that is ending, kept if it is the first one.
Recorded ==
    IF first.set THEN first
    ELSE [set |-> TRUE, perfect |-> perfect, grid |-> grid,
          history |-> history, coords |-> pattern_42_coords]

\* -------------------------------------------------------------- carving
\* a neighbour scan whose southern bound is off by one
UnvisitedNeighborsShort(x, y, vis, w, h) ==
    (IF y > 0 /\ <<x, y - 1>> \notin vis
        THEN << <<x, y - 1, NORTH>> >> ELSE << >>)
    \o (IF y < h - 2 /\ <<x, y + 1>> \notin vis
        THEN << <<x, y + 1, SOUTH>> >> ELSE << >>)
    \o (IF x < w - 1 /\ <<x + 1, y>> \notin vis
        THEN << <<x + 1, y, EAST>> >> ELSE << >>)
    \o (IF x > 0 /\ <<x - 1, y>> \notin vis
        THEN << <<x - 1, y, WEST>> >> ELSE << >>)

\* a neighbour scan that labels the northern and the southern neighbour with
\* each other's direction
UnvisitedNeighborsSwapped(x, y, vis, w, h) ==
    (IF y > 0 /\ <<x, y - 1>> \notin vis
        THEN << <<x, y - 1, SOUTH>> >> ELSE << >>)
    \o (IF y < h - 1 /\ <<x, y + 1>> \notin vis
        THEN << <<x, y + 1, NORTH>> >> ELSE << >>)
    \o (IF x < w - 1 /\ <<x + 1, y>> \notin vis
        THEN << <<x + 1, y, EAST>> >> ELSE << >>)
    \o (IF x > 0 /\ <<x - 1, y>> \notin vis
        THEN << <<x - 1, y, WEST>> >> ELSE << >>)

\* a neighbour scan that does not look at the visited set
UnvisitedNeighborsRevisit(x, y, vis, w, h) ==
    (IF y > 0 THEN << <<x, y - 1, NORTH>> >> ELSE << >>)
    \o (IF y < h - 1 THEN << <<x, y + 1, SOUTH>> >> ELSE << >>)
    \o (IF x < w - 1 THEN << <<x + 1, y, EAST>> >> ELSE << >>)
    \o (IF x > 0 THEN << <<x - 1, y, WEST>> >> ELSE << >>)

\* _get_unvisited_neighbors: candidates in the order N, S, E, W
UnvisitedNeighbors(x, y, vis, w, h) ==
    (IF y > 0 /\ <<x, y - 1>> \notin vis
        THEN << <<x, y - 1, NORTH>> >> ELSE << >>)
    \o (IF y < h - 1 /\ <<x, y + 1>> \notin vis
        THEN << <<x, y + 1, SOUTH>> >> ELSE << >>)
    \o (IF x < w - 1 /\ <<x + 1, y>> \notin vis
        THEN << <<x + 1, y, EAST>> >> ELSE << >>)
    \o (IF x > 0 /\ <<x - 1, y>> \notin vis
        THEN << <<x - 1, y, WEST>> >> ELSE << >>)

\* generate, lines 43-56, entered with the grid and the history set to g0, h0
GenerateCall(p, g0, h0) ==
    /\ pc \in {"idle", "done"}
    /\ runs' = runs + 1
    /\ calls' = calls + 1
    /\ perfect' = p
    /\ grid' = g0
    /\ history' = h0
    /\ pattern_42_coords' = PatternCoords(width, height)
    /\ pattern_42_failed' = PatternFails(width, height)
    /\ stack' = << <<0, 0>> >>
    /\ steps' = 0
    /\ pushed' = << <<0, 0>> >>
    /\ visited' = {<<0, 0>>} \cup PatternVisited(width, height)
    /\ count' = 0
    /\ attempts' = 0
    /\ carved' = 0
    /\ args' = NoArgs
    /\ raised' = NoCall
    /\ pc' = "carve"
    /\ UNCHANGED <<width, height, seed, rng, first>>

\* generate called on the generator alone, at most MaxRuns times
GenerateFrom(p, g0, h0) ==
    /\ runs < MaxRuns
    /\ GenerateCall(p, g0, h0)
    /\ UNCHANGED tui

\* a generate that keeps the grid and the history of the previous run
GenerateStartStale(p) == GenerateFrom(p, grid, history)

\* generate, lines 43-56: reset, start cell, glyph
GenerateStart(p) == GenerateFrom(p, AllWalls(width, height), << >>)

\* The number the random source yields in state s; _randbelow(n) reduces it
\* modulo n, so RandBelow(s, n) = Draw(s) % n.
Draw(s) == RngNext(s) \div 256

\* generate, lines 59-71: one iteration of the carving loop, the random source
\* yielding draw when choice() asks it for an index
CarveWith(draw) ==
    /\ pc = "carve"
    /\ stack # << >>
    /\ steps' = steps + 1
    /\ LET cur == stack[Len(stack)]
           nbrs == UnvisitedNeighbors(cur[1], cur[2], visited, width, height)
       IN  IF nbrs # << >>
           THEN LET pick == nbrs[(draw % Len(nbrs)) + 1]
                    nxt == <<pick[1], pick[2]>>
                    r == RemoveWall(grid, history, cur, nxt, pick[3])
                IN  /\ rng' = RngNext(rng)
                    /\ grid' = r.grid
                    /\ history' = r.history
                    /\ visited' = visited \cup {nxt}
                    /\ stack' = Append(stack, nxt)
                    /\ pushed' = Append(pushed, nxt)
           ELSE /\ stack' = SubSeq(stack, 1, Len(stack) - 1)
                /\ UNCHANGED <<rng, grid, history, visited, pushed>>
    /\ UNCHANGED <<width, height, seed, pattern_42_coords, pattern_42_failed,
                   pc, perfect, count, attempts, carved, calls, runs, args,
                   raised, first, tui>>

\* generate, lines 59-71, on a generator constructed with a seed: the index
\* is self._rng.choice's, RandBelow(rng, len(unvisited_neighbors))
CarveStep == CarveWith(Draw(rng))

\* The numbers an unseeded source may yield: every index into a list of one
\* to four neighbours is the remainder of one of them.
Draws == 0 .. 11

\* generate, lines 59-71, on a generator constructed without a seed, as
\* src/a_maze_ing.py constructs it: random.Random(None) starts from the
\* system's entropy and any neighbour may be chosen.  Explored on the grids
\* of at most MaxFree x MaxFree cells.
CarveAny ==
    /\ width <= MaxFree
    /\ height <= MaxFree
    /\ \E draw \in Draws : CarveWith(draw)

\* make_imperfect, lines 200-201
WallsToBreak(w, h) ==
    LET n == (3 * w * h) \div 100 IN IF n > 1 THEN n ELSE 1

\* generate, line 59: the carving loop ends and generate goes on at target
CarveExitTo(target) ==
    /\ pc = "carve"
    /\ stack = << >>
    /\ carved' = Len(history)
    /\ count' = 0
    /\ attempts' = 0
    /\ pc' = target
    /\ first' = IF target = "done" THEN Recorded ELSE first
    /\ UNCHANGED <<width, height, seed, rng, grid, history, pattern_42_coords,
                   pattern_42_failed, perfect, stack, visited, calls, runs,
                   args, raised, loop, tui>>

\* a generate that runs make_imperfect whatever the flag
CarveExitAlwaysImperfect == CarveExitTo("imperfect")

\* generate, lines 59 and 73-74: the carving loop ends; make_imperfect, 200-204
CarveExit == CarveExitTo(IF perfect THEN "done" ELSE "imperfect")

\* a candidate list that does not look at the wall bits
ValidWallsAny(g, x, y, w, h) ==
    (IF y > 0 THEN << <<x, y - 1, NORTH>> >> ELSE << >>)
    \o (IF y < h - 1 THEN << <<x, y + 1, SOUTH>> >> ELSE << >>)
    \o (IF x < w - 1 THEN << <<x + 1, y, EAST>> >> ELSE << >>)
    \o (IF x > 0 THEN << <<x - 1, y, WEST>> >> ELSE << >>)

\* make_imperfect, lines 218-234: walls of (x, y) that are present, N, S, E, W
ValidWalls(g, x, y, w, h) ==
    (IF y > 0 /\ HasWall(g[y][x], NORTH)
        THEN << <<x, y - 1, NORTH>> >> ELSE << >>)
    \o (IF y < h - 1 /\ HasWall(g[y][x], SOUTH)
        THEN << <<x, y + 1, SOUTH>> >> ELSE << >>)
    \o (IF x < w - 1 /\ HasWall(g[y][x], EAST)
        THEN << <<x + 1, y, EAST>> >> ELSE << >>)
    \o (IF x > 0 /\ HasWall(g[y][x], WEST)
        THEN << <<x - 1, y, WEST>> >> ELSE << >>)

\* a pass that protects no cell
ProtectedNone(coords) == {}

\* make_imperfect, lines 214 and 243: the cells the pass refuses to touch
Protected(coords) == coords

\* a removal made with record_history=False and never appended
BreakWallUnrecorded(g, hist, c1, c2, d) ==
    [grid |-> RemoveWallGrid(g, c1, c2, d), history |-> hist]

\* make_imperfect, lines 248-252: the removal and the step it appends
BreakWall(g, hist, c1, c2, d) ==
    LET g2 == RemoveWallGrid(g, c1, c2, d)
    IN  [grid |-> g2, history |-> Append(hist, HistoryStep(g2, c1, c2))]

\* make_imperfect, lines 206-253: one iteration of the loop
ImperfectStep ==
    /\ pc = "imperfect"
    /\ count < WallsToBreak(width, height)
    /\ attempts < max_attempts
    /\ attempts' = attempts + 1
    /\ LET x == RandBelow(rng, width)
           s1 == RngNext(rng)
           y == RandBelow(s1, height)
           s2 == RngNext(s1)
           valid_walls == ValidWalls(grid, x, y, width, height)
       IN  IF <<x, y>> \in Protected(pattern_42_coords) \/ valid_walls = << >>
           THEN /\ rng' = s2
                /\ UNCHANGED <<grid, history, count>>
           ELSE LET pick == valid_walls[RandBelow(s2, Len(valid_walls)) + 1]
                    nxt == <<pick[1], pick[2]>>
                    r == BreakWall(grid, history, <<x, y>>, nxt, pick[3])
                IN  /\ rng' = RngNext(s2)
                    /\ IF nxt \in Protected(pattern_42_coords)
                       THEN UNCHANGED <<grid, history, count>>
                       ELSE /\ grid' = r.grid
                            /\ history' = r.history
                            /\ count' = count + 1
    /\ UNCHANGED <<width, height, seed, pattern_42_coords, pattern_42_failed,
                   pc, perfect, stack, visited, carved, calls, runs, args,
                   raised, first, loop, tui>>

\* make_imperfect, line 206: the loop ends and generate returns
ImperfectExit ==
    /\ pc = "imperfect"
    /\ ~(count < WallsToBreak(width, height) /\ attempts < max_attempts)
    /\ pc' = "done"
    /\ first' = Recorded
    /\ UNCHANGED <<width, height, seed, rng, grid, history, pattern_42_coords,
                   pattern_42_failed, perfect, stack, visited, count, attempts,
                   carved, calls, runs, args, raised, loop, tui>>

\* ------------------------------------------------------- set_entry_exit
\* a bounds test that lets x = width and y = height through
ValidateBorderPointInclusive(point, w, h) ==
    LET x == point[1]
        y == point[2]
    IN  IF ~(0 <= x /\ x <= w /\ 0 <= y /\ y <= h) THEN "outside"
        ELSE IF ~(x = 0 \/ x = w - 1 \/ y = 0 \/ y = h - 1) THEN "border"
        ELSE "ok"

\* _validate_border_point: "ok", or the condition it raises
ValidateBorderPoint(point, w, h) ==
    LET x == point[1]
        y == point[2]
    IN  IF ~(0 <= x /\ x < w /\ 0 <= y /\ y < h) THEN "outside"
        ELSE IF ~(x = 0 \/ x = w - 1 \/ y = 0 \/ y = h - 1) THEN "border"
        ELSE "ok"

\* set_entry_exit: the point the error names and the condition raised
EntryExitResult(entry, exit, w, h) ==
    IF ValidateBorderPoint(entry, w, h) # "ok"
    THEN <<"Entry", ValidateBorderPoint(entry, w, h)>>
    ELSE IF ValidateBorderPoint(exit, w, h) # "ok"
    THEN <<"Exit", ValidateBorderPoint(exit, w, h)>>
    ELSE IF entry = exit THEN <<"", "equal">>
    ELSE <<"", "ok">>

\* set_entry_exit, called once generate has returned (as the callers in
\* src/visuals/tui.py do) or on a new generator; raised keeps the outcome of
\* the one call made since then
EntryExitCall(entry, exit) ==
    /\ pc \in {"idle", "done"}
    /\ raised = NoCall
    /\ args' = <<entry, exit>>
    /\ raised' = EntryExitResult(entry, exit, width, height)
    /\ UNCHANGED <<width, height, seed, rng, grid, history, pattern_42_coords,
                   pattern_42_failed, pc, perfect, stack, visited, count,
                   attempts, carved, calls, runs, first, loop>>

\* set_entry_exit called on the generator alone
SetEntryExit(entry, exit) ==
    /\ EntryExitCall(entry, exit)
    /\ UNCHANGED tui

\* Coordinates tried along one axis of length n: both edges, an interior
\* value and the first value outside on either side.
Probe(n) == {-1, 0, 1, n - 1, n}

Points == Probe(width) \X Probe(height)

\* ------------------------------------------------------------- __init__
Seeds == 0 .. MaxSeed

\* random.Random(seed): the state of a generator seeded with s
NewRandom(s) == s

\* __init__, lines 25-37
Constructed(w, h, s) ==
    /\ width = w
    /\ height = h
    /\ seed = s
    /\ rng = NewRandom(s)
    /\ grid = AllWalls(w, h)
    /\ history = << >>
    /\ pattern_42_coords = {}
    /\ pattern_42_failed = FALSE

Init ==
    /\ \E w \in MinDim .. MaxW, h \in MinDim .. MaxH, s \in Seeds :
          Constructed(w, h, s)
    /\ pc = "idle"
    /\ perfect \in BOOLEAN
    /\ stack = << >>
    /\ visited = {}
    /\ count = 0
    /\ attempts = 0
    /\ carved = 0
    /\ calls = 0
    /\ runs = 0
    /\ args = NoArgs
    /\ raised = NoCall
    /\ first = Unset
    /\ steps = 0
    /\ pushed = << >>
    /\ handler = "none"
    /\ timer = "none"
    /\ display_grid = << >>
    /\ step_index = 0
    /\ current_color_index = 0
    /\ log = << >>

\* __init__ run again: a second generator of the same dimensions replaces the
\* first one, its random source starting in state r
Rebuild(r) ==
    /\ pc = "done"
    /\ runs < MaxRuns
    /\ rng' = r
    /\ grid' = AllWalls(width, height)
    /\ history' = << >>
    /\ pattern_42_coords' = {}
    /\ pattern_42_failed' = FALSE
    /\ pc' = "idle"
    /\ stack' = << >>
    /\ visited' = {}
    /\ count' = 0
    /\ attempts' = 0
    /\ carved' = 0
    /\ calls' = 0
    /\ args' = NoArgs
    /\ raised' = NoCall
    /\ steps' = 0
    /\ pushed' = << >>
    /\ UNCHANGED <<width, height, seed, perfect, runs, first, tui>>

\* a constructor that leaves the random source where the last run left it
ReconstructUnseeded == Rebuild(rng)

\* A second generator is constructed with the same dimensions and seed.
Reconstruct == Rebuild(NewRandom(seed))

Next ==
    \/ \E p \in BOOLEAN : GenerateStart(p)
    \/ CarveStep
    \/ CarveExit
    \/ ImperfectStep
    \/ ImperfectExit
    \/ Reconstruct

Spec == Init /\ [][Next]_vars

\* One generator, seeded with 0, used as MazeApp uses it: generate is always
\* called with the application's is_perfect, and set_entry_exit follows.
InitEntryExit == Init /\ seed = 0

NextEntryExit ==
    \/ GenerateStart(perfect)
    \/ CarveStep
    \/ CarveExit
    \/ ImperfectStep
    \/ ImperfectExit
    \/ \E entry \in Points, exit \in Points : SetEntryExit(entry, exit)

SpecEntryExit == InitEntryExit /\ [][NextEntryExit]_vars

\* One generate call on a new generator.  On the small grids the source is
\* unseeded and every choice is followed; on all grids the seeded run is.
\* generate is synchronous: once called, its loops keep running.
Running == CarveStep \/ CarveAny \/ CarveExit \/ ImperfectStep \/ ImperfectExit

NextCarve ==
    \/ calls = 0 /\ GenerateStart(perfect)
    \/ CarveStep
    \/ CarveAny
    \/ CarveExit
    \/ ImperfectStep
    \/ ImperfectExit

SpecCarve == InitEntryExit /\ [][NextCarve]_vars /\ WF_vars(Running)

\* ------------------------------------------------ MazeApp, visuals/tui.py
\* The handlers of the application run one at a time on its event loop: a
\* handler that calls generate holds the loop until it returns, and no key
\* or timer tick is handled in between.  handler names the handler that is
\* inside its generate call.
\*
\* ENTRY and EXIT of the configuration, which src/config/loader.py has
\* checked against the border rule: the two opposite corners.
self_entry == <<0, 0>>
self_exit_point == <<width - 1, height - 1>>

\* compose() has run: the application composes its screen before it handles
\* keys, and display_grid is never empty afterwards
Composed == display_grid # << >>

\* A handler calls self.generator.generate(perfect=self.is_perfect).
HandlerGenerate(name) ==
    /\ handler = "none"
    /\ GenerateCall(perfect, AllWalls(width, height), << >>)
    /\ handler' = name

\* self.generator.set_entry_exit(self.entry, self.exit_point), after which the
\* handler goes on only if nothing was raised
HandlerEntryExit(name) ==
    /\ handler = name
    /\ pc = "done"
    /\ EntryExitCall(self_entry, self_exit_point)
    /\ handler' = "none"

Returned == EntryExitResult(self_entry, self_exit_point, width, height) = <<"", "ok">>

\* compose, line 59
ComposeStart ==
    /\ ~Composed
    /\ runs = 0
    /\ HandlerGenerate("compose")
    /\ UNCHANGED <<timer, display_grid, step_index, current_color_index, log>>

\* compose, lines 60-84
ComposeEnd ==
    /\ HandlerEntryExit("compose")
    /\ display_grid' = IF Returned THEN grid ELSE display_grid
    /\ UNCHANGED <<timer, step_index, current_color_index, log>>

\* action_regenerate, line 88
RegenerateStart ==
    /\ Composed
    /\ runs <= MaxKeys
    /\ HandlerGenerate("regenerate")
    /\ UNCHANGED <<timer, display_grid, step_index, current_color_index, log>>

\* action_regenerate, lines 89-114
RegenerateEnd ==
    /\ HandlerEntryExit("regenerate")
    /\ display_grid' = IF Returned THEN grid ELSE display_grid
    /\ UNCHANGED <<timer, step_index, current_color_index, log>>

\* action_animate_gen, lines 141-147
AnimateStart ==
    /\ Composed
    /\ runs <= MaxKeys
    /\ HandlerGenerate("animate")
    /\ timer' = IF timer # "none" THEN "stopped" ELSE timer
    /\ UNCHANGED <<display_grid, step_index, current_color_index, log>>

\* action_animate_gen, lines 148-155
AnimateEnd ==
    /\ HandlerEntryExit("animate")
    /\ IF Returned
       THEN /\ display_grid' = [y \in 0 .. height - 1 |->
                                   [x \in 0 .. width - 1 |-> 15]]
            /\ step_index' = 0
            /\ timer' = "running"
            /\ log' = history
       ELSE UNCHANGED <<display_grid, step_index, timer, log>>
    /\ UNCHANGED current_color_index

\* a completion test that stops one step short of the end of the history
TickCompleteEarly(i, hist) == i >= Len(hist) - 1

\* on_timer_tick, line 161
TickComplete(i, hist) == i >= Len(hist)

\* on_timer_tick, lines 169-170: the updates of one step, applied in order
ApplyUpdates(g, updates) ==
    LET g1 == [g EXCEPT ![updates[1][2]][updates[1][1]] = updates[1][3]]
    IN  [g1 EXCEPT ![updates[2][2]][updates[2][1]] = updates[2][3]]

\* on_timer_tick: the running timer fires
OnTimerTick ==
    /\ handler = "none"
    /\ timer = "running"
    /\ IF TickComplete(step_index, history)
       THEN /\ timer' = "none"
            /\ UNCHANGED <<display_grid, step_index>>
       ELSE /\ display_grid' = ApplyUpdates(display_grid, history[step_index + 1])
            /\ step_index' = step_index + 1
            /\ UNCHANGED timer
    /\ UNCHANGED <<width, height, seed, rng, grid, history, pattern_42_coords,
                   pattern_42_failed, pc, perfect, stack, visited, count,
                   attempts, carved, calls, runs, args, raised, first, loop,
                   handler, current_color_index, log>>

\* action_toggle_color
ActionToggleColor ==
    /\ handler = "none"
    /\ Composed
    /\ current_color_index' = (current_color_index + 1) % NumColors
    /\ display_grid' = IF display_grid = << >> THEN grid ELSE display_grid
    /\ UNCHANGED <<width, height, seed, rng, grid, history, pattern_42_coords,
                   pattern_42_failed, pc, perfect, stack, visited, count,
                   attempts, carved, calls, runs, args, raised, first, loop,
                   handler, timer, step_index, log>>

\* The application on one generator seeded with 0; the keys r and a are
\* handled at most MaxKeys times in all.
NextApp ==
    \/ ComposeStart
    \/ ComposeEnd
    \/ RegenerateStart
    \/ RegenerateEnd
    \/ AnimateStart
    \/ AnimateEnd
    \/ OnTimerTick
    \/ ActionToggleColor
    \/ CarveStep
    \/ CarveExit
    \/ ImperfectStep
    \/ ImperfectExit

InitApp ==
    /\ InitEntryExit
    /\ width <= MaxApp
    /\ height <= MaxApp

SpecApp == InitApp /\ [][NextApp]_vars

\* =================================================================== claims
\* ------------------------------------------------ vocabulary of the claims
\* Cells are written <<x, y>>.
TheCells == (0 .. width - 1) \X (0 .. height - 1)

Directions == {NORTH, EAST, SOUTH, WEST}

\* The cell reached from c by one step in direction d.
Step(c, d) ==
    IF d = NORTH THEN <<c[1], c[2] - 1>>
    ELSE IF d = SOUTH THEN <<c[1], c[2] + 1>>
    ELSE IF d = EAST THEN <<c[1] + 1, c[2]>>
    ELSE <<c[1] - 1, c[2]>>

InGrid(c) == 0 <= c[1] /\ c[1] < width /\ 0 <= c[2] /\ c[2] < height

\* The bit facing direction d on the other side of the wall.
Facing(d) ==
    CASE d = NORTH -> SOUTH
      [] d = SOUTH -> NORTH
      [] d = EAST -> WEST
      [] d = WEST -> EAST

\* The passage from c in direction d is open in g.
Open(g, c, d) == InGrid(Step(c, d)) /\ ~HasWall(At(g, c), d)

\* Cells reachable in g from the cells of frontier through open walls.
RECURSIVE Flood(_, _, _)
Flood(g, seen, frontier) ==
    IF frontier = {} THEN seen
    ELSE LET next == { Step(c, d) : <<c, d>> \in
                         { e \in frontier \X Directions : Open(g, e[1], e[2]) } }
                     \ seen
         IN  Flood(g, seen \cup next, next)

Reachable(g) == Flood(g, {<<0, 0>>}, {<<0, 0>>})

\* The open passages of g among the cells of S, each counted once.
Passages(g, S) ==
    { e \in S \X {EAST, SOUTH} : Open(g, e[1], e[2]) /\ Step(e[1], e[2]) \in S }

\* The two cells a history step names.
StepCells(st) == { <<st[1][1], st[1][2]>>, <<st[2][1], st[2][2]>> }

\* The grid after the first n history steps are applied to g, in order.
RECURSIVE Replay(_, _, _)
Replay(hist, n, g) ==
    IF n = 0 THEN g
    ELSE LET b == Replay(hist, n - 1, g)
             st == hist[n]
             b1 == [b EXCEPT ![st[1][2]][st[1][1]] = st[1][3]]
         IN  [b1 EXCEPT ![st[2][2]][st[2][1]] = st[2][3]]

Generated == pc = "done"

\* ----------------------------------------------------------------------
\* C1  Wall symmetry: in every state during and after generate, for every
\* cell A and direction d with a neighbour B inside the grid, bit d of A is
\* clear iff the facing bit of B is clear.  Each adjacent pair is taken once,
\* from its western or northern cell: seen from the other cell (d = WEST or
\* NORTH) the statement is the same equivalence.
WallSymmetry ==
    \A y \in 0 .. height - 1, x \in 0 .. width - 1 :
        /\ x < width - 1 =>
              (HasWall(grid[y][x], EAST) <=> HasWall(grid[y][x + 1], WEST))
        /\ y < height - 1 =>
              (HasWall(grid[y][x], SOUTH) <=> HasWall(grid[y + 1][x], NORTH))

\* a wall has been removed by the carving loop and one by the imperfection pass
WallSymmetryWitness ==
    /\ pc = "imperfect"
    /\ count >= 1
    /\ carved >= 2
    /\ calls = 2

\* ----------------------------------------------------------------------
\* C2  Perfect maze: after generate(perfect=True) the cells reachable from
\* (0,0) form a tree: the history holds (reachable cells - 1) steps, which
\* is also the number of open passages among them, so no cycle exists.
PerfectIsTree ==
    (Generated /\ perfect) =>
        LET R == Reachable(grid)
        IN  /\ Len(history) = Cardinality(R) - 1
            /\ Cardinality(Passages(grid, R)) = Cardinality(R) - 1

PerfectIsTreeWitness ==
    /\ Generated
    /\ perfect
    /\ pattern_42_coords # {}
    /\ Cardinality(Reachable(grid)) > 9

\* ----------------------------------------------------------------------
\* C3  Coverage: after generate, in either mode, with or without the glyph,
\* exactly the non-pattern cells are reachable from (0,0); in particular
\* every cell of the outer perimeter is.
Perimeter ==
    { c \in TheCells : c[1] \in {0, width - 1} \/ c[2] \in {0, height - 1} }

Coverage ==
    Generated =>
        /\ Reachable(grid) = TheCells \ pattern_42_coords
        /\ Perimeter \subseteq Reachable(grid)

CoverageWitness ==
    /\ Generated
    /\ ~perfect
    /\ pattern_42_coords # {}
    /\ Reachable(grid) # TheCells

\* ----------------------------------------------------------------------
\* C4  Pattern cells are never touched: in every state every pattern cell
\* holds 15, is not on the stack and is named by no history step.
PatternUntouched ==
    \A c \in pattern_42_coords :
        /\ At(grid, c) = ALL_WALLS
        /\ \A i \in 1 .. Len(stack) : stack[i] # c
        /\ \A i \in 1 .. Len(history) : c \notin StepCells(history[i])

\* the imperfection pass has removed a wall of a grid that holds the glyph
PatternUntouchedWitness ==
    /\ pattern_42_coords # {}
    /\ pc = "done"
    /\ ~perfect
    /\ Len(history) > carved

\* ----------------------------------------------------------------------
\* C5  Pattern fit: once generate has run, a grid narrower than 9 or lower
\* than 7 has the failure flag set and no pattern cell; any other grid has
\* the flag clear and a non-empty pattern that keeps one cell of margin to
\* every edge; the pattern is the one the first run computed.
PatternFit ==
    pc # "idle" =>
        /\ (width < 9 \/ height < 7) =>
              pattern_42_failed /\ pattern_42_coords = {}
        /\ ~(width < 9 \/ height < 7) =>
              /\ ~pattern_42_failed
              /\ pattern_42_coords # {}
              /\ \A c \in pattern_42_coords :
                    /\ 1 <= c[1] /\ c[1] <= width - 2
                    /\ 1 <= c[2] /\ c[2] <= height - 2
        /\ first.set => pattern_42_coords = first.coords

\* a second run, of the other mode, has completed on a grid holding the glyph
PatternFitWitness ==
    /\ Generated
    /\ runs = 2
    /\ first.perfect # perfect
    /\ pattern_42_coords # {}

\* a run has completed on a grid too small for the glyph
PatternFitSmallWitness ==
    /\ Generated
    /\ pattern_42_failed
    /\ width = 8
    /\ history # << >>

\* ----------------------------------------------------------------------
\* C6  History completeness: after generate, applying the history steps in
\* order to an all-walls grid yields the grid, and the history has one step
\* per open passage of the grid.
HistoryComplete ==
    Generated =>
        /\ Replay(history, Len(history), AllWalls(width, height)) = grid
        /\ Len(history) = Cardinality(Passages(grid, TheCells))

HistoryCompleteWitness ==
    /\ Generated
    /\ ~perfect
    /\ Len(history) > carved
    /\ carved > 0

Target ==
    IF (3 * width * height) \div 100 > 1
    THEN (3 * width * height) \div 100 ELSE 1

ClearsPresentWall(before, after, st) ==
    LET a == <<st[1][1], st[1][2]>>
        b == <<st[2][1], st[2][2]>>
    IN  /\ a \in TheCells \ pattern_42_coords
        /\ b \in TheCells \ pattern_42_coords
        /\ \E d \in Directions :
              /\ Step(a, d) = b
              /\ HasWall(At(before, a), d)
              /\ HasWall(At(before, b), Facing(d))
              /\ At(after, a) = At(before, a) - d
              /\ At(after, b) = At(before, b) - Facing(d)
              /\ st[1][3] = At(after, a)
              /\ st[2][3] = At(after, b)

ImperfectCount ==
    (Generated /\ ~perfect) =>
        LET added == Len(history) - carved
        IN  /\ added = Target \/ (attempts = 500 /\ added < Target)
            /\ \A i \in carved + 1 .. Len(history) :
                  ClearsPresentWall(
                      Replay(history, i - 1, AllWalls(width, height)),
                      Replay(history, i, AllWalls(width, height)),
                      history[i])

\* the pass needed more attempts than removals to reach a target of 2
ImperfectCountWitness ==
    /\ Generated
    /\ ~perfect
    /\ Target = 2
    /\ Len(history) = carved + 2
    /\ attempts > 2

\* ----------------------------------------------------------------------
\* C9  Boundary validation: set_entry_exit succeeds iff both points are in
\* bounds, on the perimeter and distinct; the first offending point fails
\* with out-of-bounds when it is outside the grid and with not-on-border when
\* it is inside but interior; two equal valid points fail with equal-points;
\* the grid, the history and the pattern set are unchanged by the call.
OnEdge(p) == p[1] \in {0, width - 1} \/ p[2] \in {0, height - 1}

ValidPoint(p) == InGrid(p) /\ OnEdge(p)

Verdict(entry, exit, r) ==
    /\ r[2] = "ok" <=> (ValidPoint(entry) /\ ValidPoint(exit) /\ entry # exit)
    /\ ~InGrid(entry) => r = <<"Entry", "outside">>
    /\ (InGrid(entry) /\ ~OnEdge(entry)) => r = <<"Entry", "border">>
    /\ (ValidPoint(entry) /\ ~InGrid(exit)) => r = <<"Exit", "outside">>
    /\ (ValidPoint(entry) /\ InGrid(exit) /\ ~OnEdge(exit)) =>
          r = <<"Exit", "border">>
    /\ (ValidPoint(entry) /\ ValidPoint(exit) /\ entry = exit) =>
          r[2] = "equal"

BoundaryValidation ==
    [][ raised' # NoCall =>
          /\ Verdict(args'[1], args'[2], raised')
          /\ raised = NoCall =>
                /\ grid' = grid
                /\ history' = history
                /\ pattern_42_coords' = pattern_42_coords
                /\ pattern_42_failed' = pattern_42_failed ]_vars

\* two equal border points were rejected after an imperfect run
BoundaryValidationWitness ==
    /\ Generated
    /\ ~perfect
    /\ history # << >>
    /\ raised = <<"", "equal">>
    /\ args[1] = <<width - 1, 1>>

\* ----------------------------------------------------------------------
\* C10  Full reset: every generate call starts from an all-walls grid, an
\* empty history and a recomputed pattern state, keeping only the dimensions
\* and the state of the random source; from then on the history holds one
\* step per open passage of the grid, so nothing of an earlier run survives.
FullReset ==
    [][ /\ (pc \in {"idle", "done"} /\ pc' = "carve") =>
              /\ \A c \in TheCells : At(grid', c) = 15
              /\ history' = << >>
              /\ pattern_42_failed' = (pattern_42_coords' = {})
              /\ first.set => pattern_42_coords' = first.coords
              /\ rng' = rng
              /\ width' = width
              /\ height' = height
        /\ Len(history') = Cardinality(Passages(grid', TheCells)) ]_vars

\* a second generate call has started on a generator whose first run removed
\* more walls than the carving alone
FullResetWitness ==
    /\ calls = 2
    /\ pc = "carve"
    /\ history = << >>
    /\ first.set
    /\ ~first.perfect
    /\ Len(first.history) > 8

\* ----------------------------------------------------------------------
\* C11  Carving termination, as amended: on every grid and for every
\* sequence of random choices the carving loop ends, and ends with an empty
\* stack; no cell is pushed twice; the loop makes at most
\* 2 x width x height - 1 iterations, one per push after the first and one
\* per backtrack.
PushedOnce ==
    \A i \in 1 .. Len(pushed), j \in 1 .. Len(pushed) :
        pushed[i] = pushed[j] => i = j

CarvingTerminates ==
    /\ [](PushedOnce /\ steps <= 2 * width * height - 1)
    /\ [][(pc = "carve" /\ pc' # "carve") => stack = << >>]_vars
    /\ (pc = "carve") ~> (pc # "carve" /\ stack = << >>)

\* the loop has ended on a grid without the glyph after pushing every cell
\* and backtracking from every cell
CarvingTerminatesWitness ==
    /\ pc = "done"
    /\ stack = << >>
    /\ width = 3
    /\ height = 3
    /\ Len(pushed) = 9
    /\ steps = 17

\* C11 as stated: the loop makes at most width x height iterations.
CarvingWithinArea == steps <= width * height

\* ----------------------------------------------------------------------
\* C12  Animation replay order: when action_animate_gen starts the timer the
\* display grid is all-walled and step_index is 0; each tick below the end of
\* the history writes exactly the two updates of the step at step_index and
\* raises step_index by one; the tick at the end of the history stops and
\* clears the timer and changes nothing else; with the log of that animation
\* still the generator's history, the display after each tick is the first
\* step_index steps applied in order to an all-walled grid, and at the
\* clearing tick it equals the generator's grid.
\*
\* A step of the application that is a timer tick: the only step that keeps
\* every handler out of generate, with the timer running, and is no colour
\* change.
Ticked ==
    /\ handler = "none"
    /\ handler' = "none"
    /\ timer = "running"
    /\ current_color_index' = current_color_index

\* after is before with the two updates of st written, nothing else changed
WritesStep(before, after, st) ==
    \A c \in TheCells :
        At(after, c) =
            IF c = <<st[2][1], st[2][2]>> THEN st[2][3]
            ELSE IF c = <<st[1][1], st[1][2]>> THEN st[1][3]
            ELSE At(before, c)

ReplayInOrder ==
    [][ /\ (timer # "running" /\ timer' = "running") =>
              /\ \A c \in TheCells : At(display_grid', c) = 15
              /\ step_index' = 0
        /\ Ticked =>
              IF step_index < Len(history)
              THEN /\ WritesStep(display_grid, display_grid',
                                 history[step_index + 1])
                   /\ step_index' = step_index + 1
                   /\ timer' = "running"
              ELSE /\ step_index = Len(history)
                   /\ timer' = "none"
                   /\ display_grid' = display_grid
                   /\ step_index' = step_index
        /\ (Ticked /\ history = log) =>
              /\ display_grid' =
                    Replay(log, step_index', AllWalls(width, height))
              /\ timer' = "none" => display_grid = grid ]_vars

\* an animation of an imperfect maze has played to its end, the only key
\* handled since the screen was composed being the one that started it
ReplayInOrderWitness ==
    /\ runs = 2
    /\ handler = "none"
    /\ timer = "none"
    /\ ~perfect
    /\ log # << >>
    /\ history = log
    /\ Len(log) > carved
    /\ step_index = Len(log)
    /\ display_grid = grid
    /\ current_color_index = 0

\* ----------------------------------------------------------------------
\* C13  Log immutable during replay: whenever a tick of a running animation
\* can fire, the generator's history is the log that was generated when that
\* animation started, and step_index does not exceed its length.
LogImmutable ==
    (timer = "running" /\ handler = "none") =>
        /\ history = log
        /\ step_index <= Len(log)

\* ----------------------------------------------------------------------
\* C14  Outer boundary stays closed: in every state during and after
\* generate, in both modes, every cell of the top row keeps its NORTH bit,
\* of the bottom row its SOUTH bit, of the left column its WEST bit and of
\* the right column its EAST bit; every recorded removal is between two
\* cells of the grid, the second the neighbour of the first in the direction
\* whose bit the step leaves clear on both sides.
RemovalInside(st) ==
    LET a == <<st[1][1], st[1][2]>>
        b == <<st[2][1], st[2][2]>>
    IN  /\ InGrid(a)
        /\ InGrid(b)
        /\ \E d \in Directions :
              /\ Step(a, d) = b
              /\ ~HasWall(st[1][3], d)
              /\ ~HasWall(st[2][3], Facing(d))

OuterClosed ==
    /\ \A x \in 0 .. width - 1 :
          /\ HasWall(grid[0][x], NORTH)
          /\ HasWall(grid[height - 1][x], SOUTH)
    /\ \A y \in 0 .. height - 1 :
          /\ HasWall(grid[y][0], WEST)
          /\ HasWall(grid[y][width - 1], EAST)
    /\ \A i \in 1 .. Len(history) : RemovalInside(history[i])

\* an imperfect run has ended whose carving reached all four corners and
\* whose imperfection pass removed a wall of a perimeter cell
OuterClosedWitness ==
    /\ Generated
    /\ ~perfect
    /\ {<<0, 0>>, <<width - 1, 0>>, <<0, height - 1>>, <<width - 1, height - 1>>}
           \subseteq Reachable(grid)
    /\ \E i \in carved + 1 .. Len(history) :
           StepCells(history[i]) \cap Perimeter # {}

====
